---- MODULE Spec2Model ----
(***************************************************************************)
(* A model of app/main.py, a small interactive shell: the redirection      *)
(* parser, the builtin handlers, the executable cache, the output router   *)
(* and the interpreter loop.                                               *)
(*                                                                         *)
(* Strings are sequences of characters.  A character is a one-character    *)
(* string (">", "1", "2", "/", " ", "'", ...) or a word atom that stands   *)
(* for a run of ordinary letters ("echo", "f", "No such file or            *)
(* directory", ...): no code of the program looks inside such a run.       *)
(* Python's 0-based indices are shifted to the 1-based ones of Sequences.  *)
(***************************************************************************)
EXTENDS Naturals, Sequences, FiniteSets, TLC

\* Largest argument list handed to the redirection parser in ParseSpec.
MaxArgs == 3

\* Python's None for an optional string; Some(s) is the string s.
None == <<>>
Some(s) == <<s>>
\* Python truthiness of an optional string: None and '' are falsy.
Truthy(opt) == opt # None /\ opt[1] # <<>>

\* str.startswith
StartsWith(s, prefix) ==
    /\ Len(s) >= Len(prefix)
    /\ SubSeq(s, 1, Len(prefix)) = prefix

\* s[n:]
DropFirst(s, n) == SubSeq(s, n + 1, Len(s))

(***************************************************************************)
(* parse_command_redirection                                               *)
(***************************************************************************)

\* ExactBranch without '1>>' in its first test.
ExactBranchNoOneAppend(arg) ==
    IF arg \in {<<">", ">">>}
    THEN [hit |-> TRUE, stream |-> "stdout", mode |-> "a"]
    ELSE IF arg \in {<<">">>, <<"1", ">">>}
    THEN [hit |-> TRUE, stream |-> "stdout", mode |-> "w"]
    ELSE IF arg = <<"2", ">", ">">>
    THEN [hit |-> TRUE, stream |-> "stderr", mode |-> "a"]
    ELSE IF arg = <<"2", ">">>
    THEN [hit |-> TRUE, stream |-> "stderr", mode |-> "w"]
    ELSE [hit |-> FALSE, stream |-> "", mode |-> ""]

\* The spaced operators: the token is exactly the operator and the next
\* token is the file name.
ExactBranch(arg) ==
    IF arg \in {<<">", ">">>, <<"1", ">", ">">>}
    THEN [hit |-> TRUE, stream |-> "stdout", mode |-> "a"]
    ELSE IF arg \in {<<">">>, <<"1", ">">>}
    THEN [hit |-> TRUE, stream |-> "stdout", mode |-> "w"]
    ELSE IF arg = <<"2", ">", ">">>
    THEN [hit |-> TRUE, stream |-> "stderr", mode |-> "a"]
    ELSE IF arg = <<"2", ">">>
    THEN [hit |-> TRUE, stream |-> "stderr", mode |-> "w"]
    ELSE [hit |-> FALSE, stream |-> "", mode |-> ""]

\* CompactBranch with the tests for the one-'>' forms placed before those
\* for the '>>' forms, so that '2>>f' is read as '2>' with file '>f'.
CompactBranchShortFirst(arg) ==
    IF StartsWith(arg, <<"2", ">">>) /\ Len(arg) > 2
    THEN [hit |-> TRUE, stream |-> "stderr", mode |-> "w", file |-> DropFirst(arg, 2)]
    ELSE IF StartsWith(arg, <<"2", ">", ">">>) /\ Len(arg) > 3
    THEN [hit |-> TRUE, stream |-> "stderr", mode |-> "a", file |-> DropFirst(arg, 3)]
    ELSE IF StartsWith(arg, <<"1", ">">>) /\ Len(arg) > 2
    THEN [hit |-> TRUE, stream |-> "stdout", mode |-> "w", file |-> DropFirst(arg, 2)]
    ELSE IF StartsWith(arg, <<"1", ">", ">">>) /\ Len(arg) > 3
    THEN [hit |-> TRUE, stream |-> "stdout", mode |-> "a", file |-> DropFirst(arg, 3)]
    ELSE IF StartsWith(arg, <<">">>) /\ Len(arg) > 1
    THEN [hit |-> TRUE, stream |-> "stdout", mode |-> "w", file |-> DropFirst(arg, 1)]
    ELSE IF StartsWith(arg, <<">", ">">>) /\ Len(arg) > 2
    THEN [hit |-> TRUE, stream |-> "stdout", mode |-> "a", file |-> DropFirst(arg, 2)]
    ELSE [hit |-> FALSE, stream |-> "", mode |-> "", file |-> <<>>]

\* The compact operators: the token starts with the operator and the rest
\* of the token is the file name.
CompactBranch(arg) ==
    IF StartsWith(arg, <<"2", ">", ">">>) /\ Len(arg) > 3
    THEN [hit |-> TRUE, stream |-> "stderr", mode |-> "a", file |-> DropFirst(arg, 3)]
    ELSE IF StartsWith(arg, <<"2", ">">>) /\ Len(arg) > 2
    THEN [hit |-> TRUE, stream |-> "stderr", mode |-> "w", file |-> DropFirst(arg, 2)]
    ELSE IF StartsWith(arg, <<"1", ">", ">">>) /\ Len(arg) > 3
    THEN [hit |-> TRUE, stream |-> "stdout", mode |-> "a", file |-> DropFirst(arg, 3)]
    ELSE IF StartsWith(arg, <<"1", ">">>) /\ Len(arg) > 2
    THEN [hit |-> TRUE, stream |-> "stdout", mode |-> "w", file |-> DropFirst(arg, 2)]
    ELSE IF StartsWith(arg, <<">", ">">>) /\ Len(arg) > 2
    THEN [hit |-> TRUE, stream |-> "stdout", mode |-> "a", file |-> DropFirst(arg, 2)]
    ELSE IF StartsWith(arg, <<">">>) /\ Len(arg) > 1
    THEN [hit |-> TRUE, stream |-> "stdout", mode |-> "w", file |-> DropFirst(arg, 1)]
    ELSE [hit |-> FALSE, stream |-> "", mode |-> "", file |-> <<>>]

\* SetTarget that also resets the other stream's mode to 'w'.
SetTargetResetOther(st, stream, file, mode) ==
    IF stream = "stdout"
    THEN [st EXCEPT !.stdout_file = Some(file), !.modes.stdout = mode,
                    !.modes.stderr = "w"]
    ELSE [st EXCEPT !.stderr_file = Some(file), !.modes.stderr = mode,
                    !.modes.stdout = "w"]

\* The assignment "<stream>_file, <stream>_mode = file, mode".
SetTarget(st, stream, file, mode) ==
    IF stream = "stdout"
    THEN [st EXCEPT !.stdout_file = Some(file), !.modes.stdout = mode]
    ELSE [st EXCEPT !.stderr_file = Some(file), !.modes.stderr = mode]

\* The state of the parser before the loop.
ParseStart ==
    [remaining_args |-> <<>>, stdout_file |-> None, stderr_file |-> None,
     modes |-> [stdout |-> "w", stderr |-> "w"], raised |-> ""]

\* The while loop, from index i (1-based).  cmd_args[i + 1] on a spaced
\* operator that is the last token raises IndexError, which ends the call.
RECURSIVE ParseLoop(_, _, _)
ParseLoop(cmd_args, i, st) ==
    IF i > Len(cmd_args) THEN st
    ELSE LET arg == cmd_args[i]
             ex == ExactBranch(arg)
             co == CompactBranch(arg)
         IN IF ex.hit
            THEN IF i + 1 > Len(cmd_args)
                 THEN [st EXCEPT !.raised = "IndexError"]
                 ELSE ParseLoop(cmd_args, i + 2,
                                SetTarget(st, ex.stream, cmd_args[i + 1], ex.mode))
            ELSE IF co.hit
            THEN ParseLoop(cmd_args, i + 1, SetTarget(st, co.stream, co.file, co.mode))
            ELSE ParseLoop(cmd_args, i + 1,
                           [st EXCEPT !.remaining_args = Append(@, arg)])

parse_command_redirection(cmd_args) == ParseLoop(cmd_args, 1, ParseStart)

(***************************************************************************)
(* The tokenizer: input(...).strip() and shlex.split (POSIX rules, no      *)
(* comment characters, split on whitespace only).                          *)
(***************************************************************************)

Whitespace == {" ", "\t", "\r", "\n"}
Quotes == {"'", "\""}
Escape == {"\\"}
\* The quote inside which the escape character keeps its meaning.
EscapedQuotes == {"\""}

RECURSIVE LStrip(_)
LStrip(s) == IF s # <<>> /\ Head(s) \in Whitespace THEN LStrip(Tail(s)) ELSE s

RECURSIVE RStrip(_)
RStrip(s) ==
    IF s # <<>> /\ s[Len(s)] \in Whitespace THEN RStrip(SubSeq(s, 1, Len(s) - 1)) ELSE s

\* str.strip()
Strip(s) == RStrip(LStrip(s))

\* A finished token is kept when it is non-empty or came from quotes.
Emit(toks, token, quoted) ==
    IF token # <<>> \/ quoted THEN Append(toks, token) ELSE toks

\* shlex's character loop from position i: state is " " (between tokens),
\* "a" (in a word), a quote character or the escape character.
RECURSIVE ShlexScan(_, _, _, _, _, _, _)
ShlexScan(s, i, state, escapedstate, token, quoted, toks) ==
    IF i > Len(s)
    THEN IF state \in Quotes
         THEN [raised |-> "ValueError", why |-> "No closing quotation", tokens |-> <<>>]
         ELSE IF state \in Escape
         THEN [raised |-> "ValueError", why |-> "No escaped character", tokens |-> <<>>]
         ELSE [raised |-> "", why |-> "", tokens |-> Emit(toks, token, quoted)]
    ELSE LET c == s[i] IN
         IF state = " "
         THEN IF c \in Whitespace
              THEN ShlexScan(s, i + 1, " ", escapedstate, token, quoted, toks)
              ELSE IF c \in Escape
              THEN ShlexScan(s, i + 1, c, "a", token, quoted, toks)
              ELSE IF c \in Quotes
              THEN ShlexScan(s, i + 1, c, escapedstate, token, quoted, toks)
              ELSE ShlexScan(s, i + 1, "a", escapedstate, <<c>>, quoted, toks)
         ELSE IF state \in Quotes
         THEN IF c = state
              THEN ShlexScan(s, i + 1, "a", escapedstate, token, TRUE, toks)
              ELSE IF c \in Escape /\ state \in EscapedQuotes
              THEN ShlexScan(s, i + 1, c, state, token, TRUE, toks)
              ELSE ShlexScan(s, i + 1, state, escapedstate, Append(token, c), TRUE, toks)
         ELSE IF state \in Escape
         THEN LET kept == IF escapedstate \in Quotes /\ c # state /\ c # escapedstate
                          THEN Append(token, state) ELSE token
              IN ShlexScan(s, i + 1, escapedstate, escapedstate, Append(kept, c),
                           quoted, toks)
         ELSE \* state = "a"
              IF c \in Whitespace
              THEN ShlexScan(s, i + 1, " ", " ", <<>>, FALSE, Emit(toks, token, quoted))
              ELSE IF c \in Quotes
              THEN ShlexScan(s, i + 1, c, escapedstate, token, quoted, toks)
              ELSE IF c \in Escape
              THEN ShlexScan(s, i + 1, c, "a", token, quoted, toks)
              ELSE ShlexScan(s, i + 1, "a", escapedstate, Append(token, c), quoted, toks)

\* shlex.split: the tokens, or ValueError on an unterminated quote or a
\* trailing escape character.
ShlexSplit(s) == ShlexScan(s, 1, " ", " ", <<>>, FALSE, <<>>)

(***************************************************************************)
(* The file system the program sees through os and open.  A path string is *)
(* resolved against the working directory into a sequence of components;   *)
(* fs maps the components of every existing path to its node.  The inputs  *)
(* hold no '.', '..', symbolic link or trailing '/'.                       *)
(***************************************************************************)

\* The pieces of s between '/' characters, empty pieces dropped.
RECURSIVE Pieces(_, _, _)
Pieces(s, cur, acc) ==
    IF s = <<>> THEN (IF cur = <<>> THEN acc ELSE Append(acc, cur))
    ELSE IF Head(s) = "/"
    THEN Pieces(Tail(s), <<>>, IF cur = <<>> THEN acc ELSE Append(acc, cur))
    ELSE Pieces(Tail(s), Append(cur, Head(s)), acc)

\* The components of path string s, relative ones taken from cwd.
Abs(cwd, s) ==
    IF s # <<>> /\ Head(s) = "/" THEN Pieces(s, <<>>, <<>>)
    ELSE cwd \o Pieces(s, <<>>, <<>>)

\* The path string of components p: os.getcwd() for the working directory.
RECURSIVE PathStr(_)
PathStr(p) ==
    IF p = <<>> THEN <<"/">>
    ELSE IF Len(p) = 1 THEN <<"/">> \o p[1]
    ELSE PathStr(SubSeq(p, 1, Len(p) - 1)) \o <<"/">> \o p[Len(p)]

\* os.path.join(directory, filename)
PathJoin(directory, filename) ==
    IF directory # <<>> /\ directory[Len(directory)] = "/"
    THEN directory \o filename
    ELSE directory \o <<"/">> \o filename

\* os.path.dirname: what precedes the last '/', without trailing slashes
\* unless it is all slashes.
RECURSIVE RStripSlash(_)
RStripSlash(s) ==
    IF s # <<>> /\ s[Len(s)] = "/" THEN RStripSlash(SubSeq(s, 1, Len(s) - 1)) ELSE s

DirName(s) ==
    LET slashes == {k \in 1..Len(s) : s[k] = "/"} IN
    IF slashes = {} THEN <<>>
    ELSE LET last == CHOOSE k \in slashes : \A j \in slashes : j <= k
             head == SubSeq(s, 1, last)
         IN IF RStripSlash(head) = <<>> THEN head ELSE RStripSlash(head)

FileNode(content, perm) == [kind |-> "file", content |-> content, perm |-> perm]
DirNode(perm) == [kind |-> "dir", content |-> <<>>, perm |-> perm]

\* The error of walking the directories above p, "" when there is none:
\* decided by the first one that is missing, not a directory or not
\* searchable.
ResolveErr(fs, p) ==
    LET Bad(k) == LET q == SubSeq(p, 1, k) IN
                  \/ q \notin DOMAIN fs
                  \/ fs[q].kind # "dir"
                  \/ "x" \notin fs[q].perm
        bad == {k \in 0..(Len(p) - 1) : Bad(k)}
    IN IF bad = {} THEN ""
       ELSE LET k == CHOOSE j \in bad : \A i \in bad : j <= i
                q == SubSeq(p, 1, k)
            IN IF q \notin DOMAIN fs THEN "FileNotFoundError"
               ELSE IF fs[q].kind # "dir" THEN "NotADirectoryError"
               ELSE "PermissionError"

\* The error of stat(p), "" when p exists and can be reached.
StatErr(fs, p) ==
    IF ResolveErr(fs, p) # "" THEN ResolveErr(fs, p)
    ELSE IF p \notin DOMAIN fs THEN "FileNotFoundError"
    ELSE ""

\* os.path.exists, os.path.isdir, os.path.isfile: False on any error.
PathExists(fs, cwd, s) == s # <<>> /\ StatErr(fs, Abs(cwd, s)) = ""
IsDir(fs, cwd, s) == PathExists(fs, cwd, s) /\ fs[Abs(cwd, s)].kind = "dir"
IsFile(fs, cwd, s) == PathExists(fs, cwd, s) /\ fs[Abs(cwd, s)].kind = "file"

\* os.listdir of a directory that os.path.isdir accepted: the entry names,
\* or PermissionError when the directory cannot be read.
ListDir(fs, cwd, s) ==
    LET d == Abs(cwd, s) IN
    IF "r" \notin fs[d].perm THEN [raised |-> "PermissionError", names |-> {}]
    ELSE [raised |-> "",
          names |-> {q[Len(q)] : q \in {r \in DOMAIN fs :
                        Len(r) = Len(d) + 1 /\ SubSeq(r, 1, Len(d)) = d}}]

\* open(path, 'r') and read(): the content or the error raised.
OpenReadErr(fs, p, s) ==
    IF s = <<>> THEN "FileNotFoundError"
    ELSE IF StatErr(fs, p) # "" THEN StatErr(fs, p)
    ELSE IF fs[p].kind = "dir" THEN "IsADirectoryError"
    ELSE IF "r" \notin fs[p].perm THEN "PermissionError"
    ELSE ""

OpenReadAt(fs, p, e) == [raised |-> e, content |-> IF e = "" THEN fs[p].content ELSE <<>>]

OpenRead(fs, cwd, s) == OpenReadAt(fs, Abs(cwd, s), OpenReadErr(fs, Abs(cwd, s), s))

\* os.chdir(path): the new working directory or the error raised.
ChDirErr(fs, p, s) ==
    IF s = <<>> THEN "FileNotFoundError"
    ELSE IF StatErr(fs, p) # "" THEN StatErr(fs, p)
    ELSE IF fs[p].kind # "dir" THEN "NotADirectoryError"
    ELSE IF "x" \notin fs[p].perm THEN "PermissionError"
    ELSE ""

ChDirAt(cwd, p, e) == [raised |-> e, cwd |-> IF e = "" THEN p ELSE cwd]

ChDir(fs, cwd, s) == ChDirAt(cwd, Abs(cwd, s), ChDirErr(fs, Abs(cwd, s), s))

\* fs with node n at p.
WithNode(fs, p, n) == [q \in DOMAIN fs \cup {p} |-> IF q = p THEN n ELSE fs[q]]

\* os.makedirs(directory, exist_ok=True): creates the missing directories
\* from the top down, from the k-th component on.
RECURSIVE MakeDirsFrom(_, _, _)
MakeDirsFrom(fs, p, k) ==
    IF k > Len(p) THEN [raised |-> "", fs |-> fs]
    ELSE LET q == SubSeq(p, 1, k)
             up == SubSeq(p, 1, k - 1)
         IN IF q \in DOMAIN fs
            THEN IF fs[q].kind # "dir" /\ k = Len(p)
                 THEN [raised |-> "FileExistsError", fs |-> fs]
                 ELSE IF fs[q].kind # "dir"
                 THEN [raised |-> "NotADirectoryError", fs |-> fs]
                 ELSE IF "x" \notin fs[q].perm /\ k < Len(p)
                 THEN [raised |-> "PermissionError", fs |-> fs]
                 ELSE MakeDirsFrom(fs, p, k + 1)
            ELSE IF "w" \notin fs[up].perm \/ "x" \notin fs[up].perm
                 THEN [raised |-> "PermissionError", fs |-> fs]
                 ELSE MakeDirsFrom(WithNode(fs, q, DirNode({"r", "w", "x"})), p, k + 1)

MakeDirs(fs, cwd, s) == MakeDirsFrom(fs, Abs(cwd, s), 1)

\* open(path, mode) and write(content), mode 'w' or 'a': the file system
\* after the write or the error raised by open.
OpenWriteErr(fs, p, s) ==
    IF s = <<>> THEN "FileNotFoundError"
    ELSE IF ResolveErr(fs, p) # "" THEN ResolveErr(fs, p)
    ELSE IF p \in DOMAIN fs
    THEN IF fs[p].kind = "dir" THEN "IsADirectoryError"
         ELSE IF "w" \notin fs[p].perm THEN "PermissionError"
         ELSE ""
    ELSE IF "w" \notin fs[SubSeq(p, 1, Len(p) - 1)].perm THEN "PermissionError"
    ELSE ""

\* Written with mode 'a' treated as 'w': the old content is always dropped.
WrittenTruncating(fs, p, content, mode) ==
    IF p \in DOMAIN fs
    THEN FileNode(content, fs[p].perm)
    ELSE FileNode(content, {"r", "w"})

\* The node of p after write(content) on a file opened in the given mode:
\* 'a' keeps what the file held, 'w' does not; a new file is created rw.
Written(fs, p, content, mode) ==
    IF p \in DOMAIN fs
    THEN FileNode((IF mode = "a" THEN fs[p].content ELSE <<>>) \o content, fs[p].perm)
    ELSE FileNode(content, {"r", "w"})

OpenWriteAt(fs, p, e, content, mode) ==
    [raised |-> e,
     fs |-> IF e = "" THEN WithNode(fs, p, Written(fs, p, content, mode)) ELSE fs]

OpenWrite(fs, cwd, s, content, mode) ==
    OpenWriteAt(fs, Abs(cwd, s), OpenWriteErr(fs, Abs(cwd, s), s), content, mode)

(***************************************************************************)
(* The executable cache                                                    *)
(***************************************************************************)

\* str.split(sep): the pieces between separators, empty ones kept.
RECURSIVE SplitOn(_, _, _, _)
SplitOn(s, sep, cur, acc) ==
    IF s = <<>> THEN Append(acc, cur)
    ELSE IF Head(s) = sep THEN SplitOn(Tail(s), sep, <<>>, Append(acc, cur))
    ELSE SplitOn(Tail(s), sep, Append(cur, Head(s)), acc)

\* os.environ["PATH"].split(os.pathsep)
SearchPath(environ) == SplitOn(environ.PATH, ":", <<>>, <<>>)

is_executable(fs, cwd, path) ==
    IsFile(fs, cwd, path) /\ "x" \in fs[Abs(cwd, path)].perm

\* dict.get: None for a missing key.
CacheGet(cache, name) == IF name \in DOMAIN cache THEN Some(cache[name]) ELSE None

\* The assignments cache[filename] = full_path for the executable entries of
\* one directory; a later assignment replaces an earlier one for the name.
ScanDirectory(fs, cwd, directory, cache) ==
    LET found == {n \in ListDir(fs, cwd, directory).names :
                     is_executable(fs, cwd, PathJoin(directory, n))}
    IN [n \in DOMAIN cache \cup found |->
           IF n \in found THEN PathJoin(directory, n) ELSE cache[n]]

\* The loop over the search path from its k-th directory; warnings is what
\* it prints.
RECURSIVE DiscoverFrom(_, _, _, _, _, _)
DiscoverFrom(fs, cwd, dirs, k, cache, warnings) ==
    IF k > Len(dirs) THEN [cache |-> cache, warnings |-> warnings]
    ELSE LET directory == dirs[k] IN
         IF ~IsDir(fs, cwd, directory)
         THEN DiscoverFrom(fs, cwd, dirs, k + 1, cache, warnings)
         ELSE IF ListDir(fs, cwd, directory).raised = "PermissionError"
         THEN DiscoverFrom(fs, cwd, dirs, k + 1, cache,
                  warnings \o <<"Warning: Permission denied - ">> \o directory \o <<"\n">>)
         ELSE DiscoverFrom(fs, cwd, dirs, k + 1,
                  ScanDirectory(fs, cwd, directory, cache), warnings)

\* discover_system_executables: full_path_executable_cache and what was
\* printed; executable_cache is the set of its keys.
discover_system_executables(fs, cwd, environ) ==
    DiscoverFrom(fs, cwd, SearchPath(environ), 1, <<>>, <<>>)

(***************************************************************************)
(* The builtin handlers and the process executor.  Each returns the pair   *)
(* (stdout, stderr), or raised # "" for an exception it does not catch.    *)
(***************************************************************************)

Builtins == {<<"exit">>, <<"echo">>, <<"type">>, <<"pwd">>, <<"cd">>, <<"cat">>}

Returned(out, err) == [stdout |-> out, stderr |-> err, raised |-> ""]
Raised(e) == [stdout |-> <<>>, stderr |-> <<>>, raised |-> e]

\* " ".join(args)
RECURSIVE JoinSp(_)
JoinSp(args) ==
    IF args = <<>> THEN <<>>
    ELSE IF Len(args) = 1 THEN args[1]
    ELSE args[1] \o <<" ">> \o JoinSp(Tail(args))

handle_echo_command(args) == Returned(JoinSp(args) \o <<"\n">>, <<>>)

\* handle_type_command without the test that keeps cat out of the builtin
\* branch.
handle_type_commandCatBuiltin(args, commands, full_cache) ==
    IF args = <<>> THEN Returned(<<>>, <<"type: missing argument", "\n">>)
    ELSE LET command_name == args[1]
             full_command == CacheGet(full_cache, command_name)
         IN IF command_name \in commands
            THEN Returned(command_name \o <<" is a shell builtin", "\n">>, <<>>)
            ELSE IF Truthy(full_command)
            THEN Returned(command_name \o <<" is ">> \o full_command[1] \o <<"\n">>, <<>>)
            ELSE Returned(<<>>, command_name \o <<": not found", "\n">>)

handle_type_command(args, commands, full_cache) ==
    IF args = <<>> THEN Returned(<<>>, <<"type: missing argument", "\n">>)
    ELSE LET command_name == args[1]
             full_command == CacheGet(full_cache, command_name)
         IN IF command_name \in commands /\ command_name # <<"cat">>
            THEN Returned(command_name \o <<" is a shell builtin", "\n">>, <<>>)
            ELSE IF Truthy(full_command)
            THEN Returned(command_name \o <<" is ">> \o full_command[1] \o <<"\n">>, <<>>)
            ELSE Returned(<<>>, command_name \o <<": not found", "\n">>)

\* os.environ.get("HOME", "/")
HomeDir(environ) == IF environ.HOME = None THEN <<"/">> ELSE environ.HOME[1]

\* handle_change_directory: the pair and the working directory afterwards.
\* r is what os.chdir(target_dir) did.
TargetDir(args, environ) ==
    IF args = <<>> \/ args[1] = <<"~">> THEN HomeDir(environ) ELSE args[1]

ChangeDirectoryResult(target_dir, r, cwd) ==
    IF r.raised = ""
       THEN [res |-> Returned(<<>>, <<>>), cwd |-> r.cwd]
       ELSE IF r.raised = "FileNotFoundError"
       THEN [res |-> Returned(<<>>, <<"cd: ">> \o target_dir
                                     \o <<": No such file or directory", "\n">>),
             cwd |-> cwd]
       ELSE IF r.raised = "PermissionError"
       THEN [res |-> Returned(<<>>, <<"cd: ">> \o target_dir
                                     \o <<": Permission denied", "\n">>),
             cwd |-> cwd]
       ELSE [res |-> Raised(r.raised), cwd |-> cwd]

handle_change_directory(args, fs, cwd, environ) ==
    ChangeDirectoryResult(TargetDir(args, environ),
                          ChDir(fs, cwd, TargetDir(args, environ)), cwd)

\* One turn of handle_cat_command's loop: r is what open and read did for
\* path, acc the texts so far.
CatOne(path, r, acc) ==
    IF r.raised = "" THEN [acc EXCEPT !.stdout = @ \o r.content]
    ELSE IF r.raised = "FileNotFoundError"
    THEN [acc EXCEPT !.stderr = @ \o <<"cat: ">> \o path
                                  \o <<": No such file or directory", "\n">>]
    ELSE IF r.raised = "PermissionError"
    THEN [acc EXCEPT !.stderr = @ \o <<"cat: ">> \o path \o <<": Permission denied", "\n">>]
    ELSE Raised(r.raised)

\* handle_cat_command: the loop over the paths from the k-th one.
RECURSIVE CatFrom(_, _, _, _, _)
CatFrom(args, k, fs, cwd, acc) ==
    IF k > Len(args) \/ acc.raised # "" THEN acc
    ELSE CatFrom(args, k + 1, fs, cwd, CatOne(args[k], OpenRead(fs, cwd, args[k]), acc))

handle_cat_command(args, fs, cwd) == CatFrom(args, 1, fs, cwd, Returned(<<>>, <<>>))

handle_pwd_command(cwd) == Returned(PathStr(cwd) \o <<"\n">>, <<>>)

\* The file subprocess.run finds for a bare command name: the first
\* executable of that name along the search path, None when there is none.
RECURSIVE WhichFrom(_, _, _, _, _)
WhichFrom(fs, cwd, dirs, k, name) ==
    IF k > Len(dirs) THEN None
    ELSE IF is_executable(fs, cwd, PathJoin(dirs[k], name))
    THEN Some(PathJoin(dirs[k], name))
    ELSE WhichFrom(fs, cwd, dirs, k + 1, name)

Which(fs, cwd, environ, name) == WhichFrom(fs, cwd, SearchPath(environ), 1, name)

\* What a child process may write to one stream.
ChildTexts == {<<>>, <<"child", "\n">>}

\* execute_subprocess, the child having written out and err: whether the
\* child ends with status 0 or not, the pair is what it wrote.  Spawning a
\* program that no search-path directory holds raises FileNotFoundError.
execute_subprocess(command, fs, cwd, environ, out, err) ==
    IF Which(fs, cwd, environ, command) = None THEN Raised("FileNotFoundError")
    ELSE Returned(out, err)

(***************************************************************************)
(* The output router                                                       *)
(***************************************************************************)

\* write_output_to_file: the file system afterwards, what it printed on
\* the terminal's standard error, and the exception it lets through.
\* The try block's first statements: the parent directories are created
\* when the file name has a directory part that does not exist.
EnsureDirs(fs, cwd, directory) ==
    IF directory # <<>> /\ ~PathExists(fs, cwd, directory)
    THEN MakeDirs(fs, cwd, directory)
    ELSE [raised |-> "", fs |-> fs]

\* The try block's open and write, reached when md, the directory step,
\* did not raise.
WriteAfterDirs(md, cwd, filename, content, mode) ==
    IF md.raised = "" THEN OpenWrite(md.fs, cwd, filename, content, mode) ELSE md

\* The except clauses, for the outcome wr of the try block.
WriteOutcome(filename, wr) ==
    IF wr.raised = "" THEN [fs |-> wr.fs, printed |-> <<>>, raised |-> ""]
       ELSE IF wr.raised = "FileNotFoundError"
       THEN [fs |-> wr.fs, raised |-> "",
             printed |-> <<"Error: ">> \o filename
                         \o <<": No such file or directory", "\n">>]
       ELSE IF wr.raised = "PermissionError"
       THEN [fs |-> wr.fs, raised |-> "",
             printed |-> <<"Error: ">> \o filename \o <<": Permission denied", "\n">>]
       ELSE [fs |-> wr.fs, printed |-> <<>>, raised |-> wr.raised]

write_output_to_file(fs, cwd, filename, content, mode) ==
    WriteOutcome(filename,
                 WriteAfterDirs(EnsureDirs(fs, cwd, DirName(filename)), cwd, filename,
                                content, mode))

(***************************************************************************)
(* The completer readline calls while a line is being typed                *)
(***************************************************************************)

\* The builtin names the completer offers, each with its trailing space.
CompleterBuiltins ==
    << <<"exit", " ">>, <<"echo", " ">>, <<"type", " ">>, <<"pwd", " ">>,
       <<"cd", " ">>, <<"cat", " ">> >>

\* The orders in which iterating over set S may yield its elements.
Orderings(S) ==
    { f \in [1..Cardinality(S) -> S] : \A i, j \in 1..Cardinality(S) :
                                          f[i] = f[j] => i = j }

\* matches[state], or IndexError when there is no such match (state counts
\* from 0); suffix is what the completer adds to the match.
NthMatch(matches, state, suffix) ==
    IF state < Len(matches)
    THEN [result |-> Some(matches[state + 1] \o suffix), bell |-> FALSE, raised |-> ""]
    ELSE [result |-> None, bell |-> FALSE, raised |-> "IndexError"]

\* command_name_completer(text, state), executables being the names of
\* executable_cache in the order the comprehension meets them.
command_name_completer(text, state, executables) ==
    LET matches_builtins == SelectSeq(CompleterBuiltins, LAMBDA c : StartsWith(c, text))
        matches_executables == SelectSeq(executables, LAMBDA c : StartsWith(c, text))
    IN IF matches_builtins = <<>> /\ matches_executables = <<>> /\ state = 0
       THEN [result |-> None, bell |-> TRUE, raised |-> ""]
       ELSE IF matches_builtins # <<>> THEN NthMatch(matches_builtins, state, <<>>)
       ELSE IF matches_executables # <<>>
       THEN IF Len(matches_executables) = 1
            THEN NthMatch(matches_executables, state, <<" ">>)
            ELSE NthMatch(matches_executables, state, <<>>)
       ELSE [result |-> None, bell |-> FALSE, raised |-> ""]

(***************************************************************************)
(* The interpreter loop                                                    *)
(***************************************************************************)

\* Input lines read in one session.
MaxSteps == 2
\* Executables the environment deletes from disk during one session.
MaxRemovals == 1

VARIABLES
    pc,          \* Start, AwaitingInput, Completing, Tokenizing, Dispatching,
                 \* Routing, Exited
    environ,     \* os.environ: PATH and HOME (None when unset)
    fs,          \* the file system
    cwd,         \* the process working directory, as components
    executable_cache,
    full_path_executable_cache,
    line,        \* the line input() returned in this iteration
    args,        \* shlex.split's tokens
    redirect,    \* what parse_command_redirection returned
    call,        \* the handler or program this iteration ran, and its arguments
    stdout,      \* the text the handler returned for each stream
    stderr,
    term_out,    \* written to the terminal's standard output in this iteration
    term_err,    \* written to the terminal's standard error in this iteration
    exit_status, \* the process exit status, None while it runs
    exit_cause,  \* "exit", "eof" or the name of the uncaught exception
    steps,       \* lines read so far
    removals,    \* executables deleted so far
    cmd_args,    \* ParseSpec: the argument list given to the parser
    parse_out,   \* ParseSpec: None or the parser's result for cmd_args
    type_args,   \* TypeSpec: the argument list given to handle_type_command
    type_out,    \* TypeSpec: None or the handler's result for type_args
    completion   \* None, or what the completer has just returned to readline

vars == <<pc, environ, fs, cwd, executable_cache, full_path_executable_cache, line,
          args, redirect, call, stdout, stderr, term_out, term_err, exit_status,
          exit_cause, steps, removals, cmd_args, parse_out, type_args, type_out,
          completion>>

iter_vars == <<line, args, redirect, call, stdout, stderr>>
cache_vars == <<executable_cache, full_path_executable_cache>>
parse_vars == <<cmd_args, parse_out>>
type_vars == <<type_args, type_out>>

NoCall == [kind |-> "none", cmd |-> <<>>, args |-> <<>>, path |-> None]

RW == {"r", "w"}
RWX == {"r", "w", "x"}
RX == {"r", "x"}

\* The disk at startup: two search-path directories that both hold foo, a
\* home directory with a subdirectory d, a read-only file r, an unreadable
\* file s and a directory p without any permission.
InitialFs ==
    LET nodes == {
          <<<<>>, DirNode(RWX)>>,
          <<<< <<"a">> >>, DirNode(RWX)>>,
          <<<< <<"a">>, <<"foo">> >>, FileNode(<<>>, RX)>>,
          <<<< <<"b">> >>, DirNode(RWX)>>,
          <<<< <<"b">>, <<"foo">> >>, FileNode(<<>>, RX)>>,
          <<<< <<"b">>, <<"bar">> >>, FileNode(<<>>, RX)>>,
          <<<< <<"b">>, <<"txt">> >>, FileNode(<<"notes", "\n">>, RW)>>,
          <<<< <<"h">> >>, DirNode(RWX)>>,
          <<<< <<"h">>, <<"d">> >>, DirNode(RWX)>>,
          <<<< <<"h">>, <<"r">> >>, FileNode(<<"data", "\n">>, {"r"})>>,
          <<<< <<"h">>, <<"s">> >>, FileNode(<<"secret", "\n">>, {})>>,
          <<<< <<"h">>, <<"p">> >>, DirNode({})>> }
    IN [q \in {n[1] : n \in nodes} |-> (CHOOSE n \in nodes : n[1] = q)[2]]

\* The environments a session may start in.
Environments ==
    { [PATH |-> <<"/", "a", ":", "/", "b">>, HOME |-> Some(<<"/", "h">>)],
      [PATH |-> <<"/", "b", ":", "/", "a">>, HOME |-> None],
      [PATH |-> <<"/", "h", "/", "p", ":", "/", "zz", ":", "/", "b", ":", "/", "a">>,
       HOME |-> Some(<<"/", "h">>)] }

Init ==
    /\ pc = "Start"
    /\ environ \in Environments
    /\ fs = InitialFs
    /\ cwd = << <<"h">> >>
    /\ executable_cache = {}
    /\ full_path_executable_cache = <<>>
    /\ line = <<>>
    /\ args = <<>>
    /\ redirect = ParseStart
    /\ call = NoCall
    /\ stdout = <<>>
    /\ stderr = <<>>
    /\ term_out = <<>>
    /\ term_err = <<>>
    /\ exit_status = None
    /\ exit_cause = ""
    /\ steps = 0
    /\ removals = 0
    /\ cmd_args = <<>>
    /\ parse_out = None
    /\ type_args = <<>>
    /\ type_out = None
    /\ completion = <<>>

\* main() up to the loop: discover_system_executables().
Discover ==
    /\ pc = "Start"
    /\ LET d == discover_system_executables(fs, cwd, environ) IN
       /\ full_path_executable_cache' = d.cache
       /\ executable_cache' = DOMAIN d.cache
       /\ term_out' = d.warnings
    /\ pc' = "AwaitingInput"
    /\ UNCHANGED <<environ, fs, cwd, iter_vars, term_err, exit_status, exit_cause,
                   steps, removals, parse_vars,
                   type_vars, completion>>

\* The process ends: sys.exit(0), or an exception no handler catches, which
\* prints a traceback and ends the process with status 1.
Exit(cause) ==
    /\ pc' = "Exited"
    /\ exit_cause' = cause
    /\ exit_status' = IF cause \in {"exit", "eof"} THEN Some(0) ELSE Some(1)

(***************************************************************************)
(* The lines a user may type                                               *)
(***************************************************************************)

SixOps == {<<">">>, <<">", ">">>, <<"1", ">">>, <<"1", ">", ">">>,
           <<"2", ">">>, <<"2", ">", ">">>}

\* A line from its words, one space between them.
Words(ws) == JoinSp(ws)

PlainLines == { Words(ws) : ws \in {
    << <<"echo">>, <<"a">> >>,
    << <<"echo">>, <<"a">>, <<"b">> >>,
    << <<"pwd">> >>,
    << <<"type">> >>,
    << <<"type">>, <<"echo">> >>,
    << <<"type">>, <<"cat">> >>,
    << <<"type">>, <<"foo">> >>,
    << <<"type">>, <<"bar">> >>,
    << <<"type">>, <<"zz">> >>,
    << <<"cd">> >>,
    << <<"cd">>, <<"~">> >>,
    << <<"cd">>, <<"d">> >>,
    << <<"cd">>, <<"zz">> >>,
    << <<"cd">>, <<"r">> >>,
    << <<"cd">>, <<"p">> >>,
    << <<"cd">>, <<"r", "/", "x">> >>,
    << <<"cat">>, <<"r">> >>,
    << <<"cat">>, <<"zz">>, <<"r">> >>,
    << <<"cat">>, <<"r">>, <<"s">>, <<"zz">> >>,
    << <<"cat">>, <<"d">> >>,
    << <<"cat">>, <<"r", "/", "x">>, <<"r">> >>,
    << <<"cat">>, <<"f">> >>,
    << <<"foo">> >>,
    << <<"foo">>, <<"a">> >>,
    << <<"bar">> >>,
    << <<"zz">> >>,
    << <<"exit">> >>,
    << <<"exit">>, <<"a">> >> } }

\* echo with one operator for the file f, spaced and compact.
EchoRedirLines ==
    { Words(<< <<"echo">>, <<"a">>, op, <<"f">> >>) : op \in SixOps }
    \cup { Words(<< <<"echo">>, <<"b">>, op \o <<"f">> >>) : op \in SixOps }

\* A command that writes both streams (r is readable, zz is missing), each
\* stream sent to a file or left on the terminal.
BothStreamLines == { Words(<< <<"cat">>, <<"r">>, <<"zz">> >> \o ws) : ws \in {
    << <<">">>, <<"f">> >>,
    << <<">", ">">>, <<"f">> >>,
    << <<"2", ">">>, <<"f">> >>,
    << <<"2", ">", ">", "f">> >>,
    << <<">">>, <<"f">>, <<"2", ">">>, <<"g">> >>,
    << <<">">>, <<"f">>, <<"2", ">">>, <<"f">> >>,
    << <<">", ">">>, <<"f">>, <<"2", ">">>, <<"f">> >>,
    << <<">">>, <<"f">>, <<"2", ">", ">">>, <<"f">> >>,
    << <<">", ">", "f">>, <<"2", ">", ">", "f">> >>,
    << <<">">>, <<"g">>, <<">", ">">>, <<"f">> >>,
    << <<">">>, <<"d">>, <<"2", ">">>, <<"f">> >>,
    << <<">">>, <<"f">>, <<"2", ">">>, <<"d">> >>,
    << <<">">>, <<"p", "/", "x">>, <<"2", ">">>, <<"f">> >>,
    << <<">">>, <<"r">>, <<"2", ">">>, <<"f">> >>,
    << <<"2", ">">>, <<"r">> >>,
    << <<">">>, <<"n", "/", "f">> >>,
    << <<">">>, <<"r", "/", "x">> >>,
    << <<">">>, <<"r", "/", "x", "/", "y">>, <<"2", ">">>, <<"f">> >> } }

\* Other commands with a redirection.
OtherRedirLines == { Words(ws) : ws \in {
    << <<"zz">>, <<">">>, <<"f">> >>,
    << <<"zz">>, <<"2", ">", ">">>, <<"f">> >>,
    << <<"cd">>, <<"zz">>, <<">">>, <<"f">> >>,
    << <<"cd">>, <<"r">>, <<"2", ">">>, <<"f">> >>,
    << <<"exit">>, <<">">>, <<"f">> >>,
    << <<"exit">>, <<"a">>, <<">", ">", "f">> >>,
    << <<"foo">>, <<"a">>, <<">">>, <<"f">> >>,
    << <<"foo">>, <<"2", ">", ">">>, <<"f">> >>,
    << <<"cat">>, <<"f">>, <<">">>, <<"f">> >>,
    << <<"cat">>, <<"f">>, <<">", ">">>, <<"f">> >>,
    << <<"echo">>, <<">">>, <<"f">>, <<"a">> >>,
    << <<"echo">>, <<"a">>, <<">">>, <<"d">>, <<"2", ">">>, <<"f">> >>,
    << <<"pwd">>, <<">", ">">>, <<"f">> >> } }

\* An operator with no file name after it.
DanglingLines ==
    { Words(<< <<"echo">>, <<"a">>, op >>) : op \in SixOps }
    \cup { Words(<< <<"exit">>, <<">">> >>),
           Words(<< <<"echo">>, <<"a">>, <<">">>, <<"f">>, <<"2", ">">> >>) }

\* Lines with quotes and escapes, balanced or not, and blank lines.
QuotedLines == {
    <<"echo", " ", "'", "a", " ", "b", "'">>,
    <<"echo", " ", "\"", "a", "\"", " ", ">", " ", "'", "f", "'">>,
    <<"echo", " ", "a", " ", ">", " ", "'", "'">>,
    <<"echo", " ", "a", "\\", " ", "b">>,
    <<" ", "echo", " ", " ", "a", " ">>,
    <<>>,
    <<" ", " ">>,
    <<"echo", " ", "'", "a">>,
    <<"echo", " ", "\"", "a", " ", ">", " ", "f">>,
    <<"echo", " ", "a", " ", ">", " ", "f", " ", "'", "b">>,
    <<"exit", " ", "'">>,
    <<"foo", " ", "\"">>,
    <<"echo", " ", "a", "\\">> }

Lines == PlainLines \cup EchoRedirLines \cup BothStreamLines \cup OtherRedirLines
         \cup DanglingLines \cup QuotedLines

(***************************************************************************)
(* The loop's steps                                                        *)
(***************************************************************************)

\* What the interpreter prints for an exception nothing catches.
Traceback(e) == <<"Traceback (most recent call last): ", e, "\n">>

\* An uncaught exception e ends the process.
Crash(e) ==
    /\ Exit(e)
    /\ term_err' = term_err \o Traceback(e)

\* input("$ ") returns a line.
ReadLine ==
    /\ pc = "AwaitingInput"
    /\ steps < MaxSteps
    /\ \E l \in Lines : line' = l
    /\ steps' = steps + 1
    /\ pc' = "Tokenizing"
    /\ args' = <<>>
    /\ redirect' = ParseStart
    /\ call' = NoCall
    /\ stdout' = <<>>
    /\ stderr' = <<>>
    /\ term_out' = <<>>
    /\ term_err' = <<>>
    /\ UNCHANGED <<environ, fs, cwd, cache_vars, exit_status, exit_cause, removals,
                   parse_vars, type_vars, completion>>

\* Interrupt without the except clause for KeyboardInterrupt: the exception
\* ends the process.
InterruptUncaught ==
    /\ pc = "AwaitingInput"
    /\ term_out' = term_out
    /\ Crash("KeyboardInterrupt")
    /\ UNCHANGED <<environ, fs, cwd, cache_vars, iter_vars, steps, removals,
                   parse_vars, type_vars, completion>>

\* input("$ ") raises KeyboardInterrupt: print() and a new iteration.
Interrupt ==
    /\ pc = "AwaitingInput"
    /\ term_out' = <<"\n">>
    /\ term_err' = <<>>
    /\ pc' = "AwaitingInput"
    /\ UNCHANGED <<environ, fs, cwd, cache_vars, iter_vars, exit_status, exit_cause,
                   steps, removals, parse_vars,
                   type_vars, completion>>

\* input("$ ") raises EOFError: print() and sys.exit(0).
EndOfInput ==
    /\ pc = "AwaitingInput"
    /\ term_out' = <<"\n">>
    /\ term_err' = <<>>
    /\ Exit("eof")
    /\ UNCHANGED <<environ, fs, cwd, cache_vars, iter_vars, steps, removals,
                   parse_vars,
                   type_vars, completion>>

\* The environment deletes from disk an executable the cache names.
RemoveExecutable ==
    /\ pc = "AwaitingInput"
    /\ removals < MaxRemovals
    /\ \E n \in executable_cache :
          LET q == Abs(cwd, full_path_executable_cache[n]) IN
          /\ q \in DOMAIN fs
          /\ fs' = [r \in DOMAIN fs \ {q} |-> fs[r]]
    /\ removals' = removals + 1
    /\ UNCHANGED <<pc, environ, cwd, cache_vars, iter_vars, term_out, term_err,
                   exit_status, exit_cause, steps, parse_vars,
                   type_vars, completion>>

\* What the user has typed when the tab key asks for a completion, and
\* the states readline asks for.
CompletionTexts == {<<>>, <<"echo">>, <<"foo">>, <<"b">>, <<"zz">>}
CompletionStates == {0, 1}

\* Complete with the cache changed by the query: the text asked about is
\* added to executable_cache.
CompleteCaching ==
    /\ pc = "AwaitingInput"
    /\ steps < MaxSteps
    /\ \E text \in CompletionTexts :
          /\ completion' = Some([result |-> None, bell |-> FALSE])
          /\ executable_cache' = executable_cache \cup {text}
    /\ pc' = "Completing"
    /\ UNCHANGED <<environ, fs, cwd, full_path_executable_cache, iter_vars,
                   term_out, term_err, exit_status, exit_cause, steps, removals,
                   parse_vars, type_vars>>

\* The tab key while one of the session's lines is being typed: readline
\* calls command_name_completer(text, state).  The completer returns a
\* match or None, having rung the terminal's bell or not; an exception of
\* the completer is dropped by readline, which then has no match.
Complete ==
    /\ pc = "AwaitingInput"
    /\ steps < MaxSteps
    /\ \E text \in CompletionTexts, state \in CompletionStates,
          executables \in Orderings(executable_cache) :
          LET c == command_name_completer(text, state, executables) IN
          completion' = Some([result |-> c.result, bell |-> c.bell])
    /\ pc' = "Completing"
    /\ UNCHANGED <<environ, fs, cwd, cache_vars, iter_vars, term_out, term_err,
                   exit_status, exit_cause, steps, removals, parse_vars, type_vars>>

\* readline has shown the completer's answer and input("$ ") waits again.
ResumeInput ==
    /\ pc = "Completing"
    /\ completion' = None
    /\ pc' = "AwaitingInput"
    /\ UNCHANGED <<environ, fs, cwd, cache_vars, iter_vars, term_out, term_err,
                   exit_status, exit_cause, steps, removals, parse_vars, type_vars>>

\* strip(), the two emptiness tests and shlex.split.
Tokenize ==
    /\ pc = "Tokenizing"
    /\ LET user_input == Strip(line)
           sp == ShlexSplit(user_input)
       IN IF user_input = <<>>
          THEN /\ pc' = "AwaitingInput"
               /\ UNCHANGED <<args, term_err, exit_status, exit_cause>>
          ELSE IF sp.raised # ""
          THEN /\ Crash(sp.raised)
               /\ UNCHANGED args
          ELSE IF sp.tokens = <<>>
          THEN /\ pc' = "AwaitingInput"
               /\ UNCHANGED <<args, term_err, exit_status, exit_cause>>
          ELSE /\ args' = sp.tokens
               /\ pc' = "Dispatching"
               /\ UNCHANGED <<term_err, exit_status, exit_cause>>
    /\ UNCHANGED <<environ, fs, cwd, cache_vars, line, redirect, call, stdout, stderr,
                   term_out, steps, removals, parse_vars,
                   type_vars, completion>>

\* RunBuiltin on a disk where the stdout target of the line has already
\* been opened: a file redirected to with a truncating operator is empty
\* when the handler reads it.
RunBuiltinTargetOpenedFirst(cmd, filtered_args) ==
    LET pr == parse_command_redirection(Tail(args))
        fs1 == IF Truthy(pr.stdout_file) /\ pr.modes.stdout = "w"
                  /\ IsFile(fs, cwd, pr.stdout_file[1])
               THEN WithNode(fs, Abs(cwd, pr.stdout_file[1]),
                             FileNode(<<>>, fs[Abs(cwd, pr.stdout_file[1])].perm))
               ELSE fs
    IN IF cmd = <<"echo">> THEN handle_echo_command(filtered_args)
       ELSE IF cmd = <<"type">>
       THEN handle_type_command(filtered_args, Builtins, full_path_executable_cache)
       ELSE IF cmd = <<"pwd">> THEN handle_pwd_command(cwd)
       ELSE handle_cat_command(filtered_args, fs1, cwd)

\* The handler's result for a builtin other than exit and cd.
RunBuiltin(cmd, filtered_args) ==
    IF cmd = <<"echo">> THEN handle_echo_command(filtered_args)
    ELSE IF cmd = <<"type">>
    THEN handle_type_command(filtered_args, Builtins, full_path_executable_cache)
    ELSE IF cmd = <<"pwd">> THEN handle_pwd_command(cwd)
    ELSE handle_cat_command(filtered_args, fs, cwd)

\* The handler returned res: on to the router, unless it raised.
Finish(res) ==
    IF res.raised # ""
    THEN /\ Crash(res.raised)
         /\ UNCHANGED <<stdout, stderr>>
    ELSE /\ stdout' = res.stdout
         /\ stderr' = res.stderr
         /\ pc' = "Routing"
         /\ UNCHANGED <<term_err, exit_status, exit_cause>>

\* parse_command_redirection, then the builtin, the external program or
\* the "command not found" text.
Dispatch ==
    /\ pc = "Dispatching"
    /\ LET cmd == Head(args)
           pr == parse_command_redirection(Tail(args))
           filtered_args == pr.remaining_args
       IN IF pr.raised # ""
          THEN /\ Crash(pr.raised)
               /\ UNCHANGED <<redirect, call, stdout, stderr, cwd>>
          ELSE
          /\ redirect' = pr
          /\ IF cmd = <<"exit">>
             THEN /\ call' = [kind |-> "builtin", cmd |-> cmd, args |-> filtered_args,
                              path |-> None]
                  /\ Exit("exit")
                  /\ UNCHANGED <<stdout, stderr, cwd, term_err>>
             ELSE IF cmd = <<"cd">>
             THEN LET r == handle_change_directory(filtered_args, fs, cwd, environ) IN
                  /\ call' = [kind |-> "builtin", cmd |-> cmd, args |-> filtered_args,
                              path |-> None]
                  /\ cwd' = r.cwd
                  /\ Finish(r.res)
             ELSE IF cmd \in Builtins
             THEN /\ call' = [kind |-> "builtin", cmd |-> cmd, args |-> filtered_args,
                              path |-> None]
                  /\ UNCHANGED cwd
                  /\ Finish(RunBuiltin(cmd, filtered_args))
             ELSE IF cmd \in executable_cache
             THEN /\ call' = [kind |-> "external", cmd |-> cmd, args |-> filtered_args,
                              path |-> Which(fs, cwd, environ, cmd)]
                  /\ UNCHANGED cwd
                  /\ \E out \in ChildTexts, err \in ChildTexts :
                        Finish(execute_subprocess(cmd, fs, cwd, environ, out, err))
             ELSE /\ call' = [kind |-> "notfound", cmd |-> cmd, args |-> filtered_args,
                              path |-> None]
                  /\ UNCHANGED cwd
                  /\ Finish(Returned(<<>>, cmd \o <<": command not found", "\n">>))
    /\ UNCHANGED <<environ, fs, cache_vars, line, args, term_out, steps, removals,
                   parse_vars,
                   type_vars, completion>>

\* The first half of the router: stdout to its file or to the terminal.
ToFile(w) == [fs |-> w.fs, out |-> <<>>, err |-> w.printed, raised |-> w.raised]

RouteStdout(fs0) ==
    IF Truthy(redirect.stdout_file)
    THEN ToFile(write_output_to_file(fs0, cwd, redirect.stdout_file[1], stdout,
                                     redirect.modes.stdout))
    ELSE [fs |-> fs0, out |-> stdout, err |-> <<>>, raised |-> ""]

\* The second half: stderr to its file or to the terminal.
RouteStderr(fs0) ==
    IF Truthy(redirect.stderr_file)
    THEN ToFile(write_output_to_file(fs0, cwd, redirect.stderr_file[1], stderr,
                                     redirect.modes.stderr))
    ELSE [fs |-> fs0, out |-> <<>>, err |-> stderr, raised |-> ""]

\* Lines 325-333 as one result: the stderr half runs on what the stdout
\* half left, unless the stdout half raised.
RouteBoth(r1, r2) ==
    IF r1.raised # "" THEN r1
    ELSE [fs |-> r2.fs, out |-> r1.out, err |-> r1.err \o r2.err, raised |-> r2.raised]

\* Routed with the two halves in the other order: the stderr target is
\* written first and the stdout target after it.
RoutedStderrFirst(fs0) ==
    [fs |-> RouteStdout(RouteStderr(fs0).fs).fs,
     out |-> RouteStdout(fs0).out,
     err |-> RouteStderr(fs0).err \o RouteStdout(RouteStderr(fs0).fs).err,
     raised |-> IF RouteStderr(fs0).raised # "" THEN RouteStderr(fs0).raised
                ELSE RouteStdout(RouteStderr(fs0).fs).raised]

Routed(fs0) == RouteBoth(RouteStdout(fs0), RouteStderr(RouteStdout(fs0).fs))

RouteEnd(r) ==
    /\ fs' = r.fs
    /\ term_out' = term_out \o r.out
    /\ IF r.raised # ""
       THEN /\ Exit(r.raised)
            /\ term_err' = term_err \o r.err \o Traceback(r.raised)
       ELSE /\ term_err' = term_err \o r.err
            /\ pc' = "AwaitingInput"
            /\ UNCHANGED <<exit_status, exit_cause>>

\* The router: stdout first, then stderr, unless the first write raised.
Route ==
    /\ pc = "Routing"
    /\ RouteEnd(Routed(fs))
    /\ UNCHANGED <<environ, cwd, cache_vars, iter_vars, steps, removals, parse_vars,
                   type_vars, completion>>

Next ==
    \/ Discover
    \/ ReadLine
    \/ Interrupt
    \/ EndOfInput
    \/ RemoveExecutable
    \/ Complete
    \/ ResumeInput
    \/ Tokenize
    \/ Dispatch
    \/ Route

Spec == Init /\ [][Next]_vars

(***************************************************************************)
(* The redirection parser on its own: every argument list of at most       *)
(* MaxArgs tokens, each token an operator, an operator followed by         *)
(* characters, or no operator at all.                                      *)
(***************************************************************************)

ParseTokens ==
    { op \o rest : op \in SixOps \cup {<<>>}, rest \in {<<>>, <<"f">>, <<">">>} }
    \cup { <<"g">>, <<"2">>, <<"f", ">">> }

ArgLists == UNION { [1..n -> ParseTokens] : n \in 0..MaxArgs }

ParseInit ==
    /\ pc = "ParseReady"
    /\ cmd_args \in ArgLists
    /\ parse_out = None
    /\ environ \in {e \in Environments : e.HOME = None}
    /\ fs = InitialFs
    /\ cwd = << <<"h">> >>
    /\ executable_cache = {}
    /\ full_path_executable_cache = <<>>
    /\ line = <<>>
    /\ args = <<>>
    /\ redirect = ParseStart
    /\ call = NoCall
    /\ stdout = <<>>
    /\ stderr = <<>>
    /\ term_out = <<>>
    /\ term_err = <<>>
    /\ exit_status = None
    /\ exit_cause = ""
    /\ steps = 0
    /\ removals = 0
    /\ type_args = <<>>
    /\ type_out = None
    /\ completion = <<>>

\* The call parse_command_redirection(cmd_args).
ApplyParse ==
    /\ pc = "ParseReady"
    /\ parse_out' = Some(parse_command_redirection(cmd_args))
    /\ pc' = "ParseDone"
    /\ UNCHANGED <<environ, fs, cwd, cache_vars, iter_vars, term_out, term_err,
                   exit_status, exit_cause, steps, removals, cmd_args, type_vars,
                   completion>>

ParseNext == ApplyParse

ParseSpec == ParseInit /\ [][ParseNext]_vars

\* The parser returned (it did not raise) for cmd_args.
ParseReturned == pc = "ParseDone" /\ parse_out[1].raised = ""

(***************************************************************************)
(* What the operators of an argument list are, read off the list itself:   *)
(* a token's operator is the longest of the six forms it starts with; the  *)
(* token after a spaced operator is that operator's file name, whatever it *)
(* looks like.                                                             *)
(***************************************************************************)

HasOp(tok) == \E op \in SixOps : StartsWith(tok, op)

LongestOp(tok) ==
    CHOOSE op \in SixOps :
        /\ StartsWith(tok, op)
        /\ \A o2 \in SixOps : StartsWith(tok, o2) => Len(o2) <= Len(op)

\* "file", "spaced", "compact" or "plain", for the i-th token.
RECURSIVE Kind(_, _)
Kind(as, i) ==
    IF i > 1 /\ Kind(as, i - 1) = "spaced" THEN "file"
    ELSE IF ~HasOp(as[i]) THEN "plain"
    ELSE IF as[i] = LongestOp(as[i]) THEN "spaced"
    ELSE "compact"

OpStream(op) == IF Head(op) = "2" THEN "stderr" ELSE "stdout"
OpMode(op) == IF Len(op) >= 2 /\ op[Len(op) - 1] = ">" THEN "a" ELSE "w"

\* The positions of the operators for one stream.
OpPositions(as, stream) ==
    { i \in 1..Len(as) : /\ Kind(as, i) \in {"spaced", "compact"}
                         /\ OpStream(LongestOp(as[i])) = stream }

\* The file name of the operator at position i.
OpFile(as, i) ==
    IF Kind(as, i) = "spaced" THEN as[i + 1]
    ELSE DropFirst(as[i], Len(LongestOp(as[i])))

LastOf(S) == CHOOSE i \in S : \A j \in S : j <= i

\* The target and mode asked for by the last of the operators at the
\* positions ops (those of one stream): none and truncate when ops is empty.
WantedFile(as, ops) == IF ops = {} THEN None ELSE Some(OpFile(as, LastOf(ops)))

WantedMode(as, ops) == IF ops = {} THEN "w" ELSE OpMode(LongestOp(as[LastOf(ops)]))

\* The plain tokens, in order.
RECURSIVE PlainFrom(_, _)
PlainFrom(as, i) ==
    IF i > Len(as) THEN <<>>
    ELSE IF Kind(as, i) = "plain" THEN <<as[i]>> \o PlainFrom(as, i + 1)
    ELSE PlainFrom(as, i + 1)

\* C5: whenever parse_command_redirection returns, each stream has at most
\* one target, and the target and mode of each stream are those of the last
\* operator for that stream in the list (spaced or compact), or no target
\* and truncate when the list has no operator for it; so an operator for
\* one stream leaves the other stream's target and mode alone.
C5_LastOperatorWins ==
    ParseReturned =>
        LET outs == OpPositions(cmd_args, "stdout")
            errs == OpPositions(cmd_args, "stderr")
        IN /\ parse_out[1].stdout_file = WantedFile(cmd_args, outs)
           /\ parse_out[1].stderr_file = WantedFile(cmd_args, errs)
           /\ parse_out[1].modes.stdout = WantedMode(cmd_args, outs)
           /\ parse_out[1].modes.stderr = WantedMode(cmd_args, errs)
           /\ Len(parse_out[1].stdout_file) <= 1
           /\ Len(parse_out[1].stderr_file) <= 1

\* C5 happens: a list with a spaced and then a compact operator for stdout,
\* the first truncating to one file and the second appending to another.
C5_Witness ==
    /\ ParseReturned
    /\ \E i, j \in OpPositions(cmd_args, "stdout") :
          /\ i < j
          /\ Kind(cmd_args, i) = "spaced"
          /\ Kind(cmd_args, j) = "compact"
          /\ OpMode(LongestOp(cmd_args[i])) = "w"
          /\ OpFile(cmd_args, i) # OpFile(cmd_args, j)
          /\ parse_out[1].stdout_file = Some(OpFile(cmd_args, j))
          /\ parse_out[1].modes.stdout = "a"
          /\ parse_out[1].stderr_file = None

\* C6: whenever parse_command_redirection returns, the residual list is the
\* list of the tokens that are neither an operator, nor an operator with
\* its file name attached, nor the file name after a spaced operator, in
\* their original order; it is the whole list when no token starts with an
\* operator.
C6_ResidualIsPlainTokens ==
    ParseReturned =>
        /\ parse_out[1].remaining_args = PlainFrom(cmd_args, 1)
        /\ (\A i \in 1..Len(cmd_args) : ~HasOp(cmd_args[i]))
              => parse_out[1].remaining_args = cmd_args

\* C6 happens: a plain token after a spaced operator and its file name,
\* the file name itself starting with an operator; only the plain token is
\* left.
C6_Witness ==
    /\ ParseReturned
    /\ Len(cmd_args) = 3
    /\ Kind(cmd_args, 1) = "spaced"
    /\ HasOp(cmd_args[2])
    /\ Kind(cmd_args, 3) = "plain"
    /\ parse_out[1].remaining_args = <<cmd_args[3]>>

\* cmd_args with the token at position k replaced by the two tokens op, f.
Spaced(as, k, op, f) ==
    SubSeq(as, 1, k - 1) \o <<op, f>> \o SubSeq(as, k + 1, Len(as))

\* The token at position k is op followed by a non-empty f, and it is the
\* only token of the list that starts with an operator.
SingleCompact(as, k, op) ==
    /\ StartsWith(as[k], op)
    /\ Len(as[k]) > Len(op)
    /\ \A j \in 1..Len(as) : j # k => ~HasOp(as[j])

\* C7 as stated: for each of the six operators op and every non-empty f,
\* a list whose single redirection token is op+f parses to the same
\* residual list, targets and modes as the list with op, f in its place.
C7_CompactEqualsSpaced ==
    pc = "ParseDone" =>
        \A k \in 1..Len(cmd_args), op \in SixOps :
            SingleCompact(cmd_args, k, op) =>
                parse_out[1] = parse_command_redirection(
                    Spaced(cmd_args, k, op, DropFirst(cmd_args[k], Len(op))))

\* C7 amended: the same, for every non-empty f that does not begin with
\* '>'.
C7_CompactEqualsSpacedAmended ==
    pc = "ParseDone" =>
        \A k \in 1..Len(cmd_args), op \in SixOps :
            /\ SingleCompact(cmd_args, k, op)
            /\ cmd_args[k][Len(op) + 1] # ">"
            => parse_out[1] = parse_command_redirection(
                    Spaced(cmd_args, k, op, DropFirst(cmd_args[k], Len(op))))

\* C7 happens: an appending compact token for stderr between two plain
\* tokens.
C7_Witness ==
    /\ ParseReturned
    /\ Len(cmd_args) = 3
    /\ SingleCompact(cmd_args, 2, <<"2", ">", ">">>)
    /\ cmd_args[2][4] # ">"
    /\ parse_out[1].stderr_file = Some(<<"f">>)
    /\ parse_out[1].modes.stderr = "a"
    /\ Len(parse_out[1].remaining_args) = 2

(***************************************************************************)
(* Properties of the interpreter loop                                      *)
(***************************************************************************)

\* The last token of the argument list is a spaced operator with no file
\* name after it.
Dangling(as) == as # <<>> /\ Kind(as, Len(as)) = "spaced"

\* This iteration's line has been tokenized and dispatched.
Dispatched == args # <<>> /\ pc \notin {"Tokenizing", "Dispatching"}

\* C1: when the last token of the argument list is one of the six
\* operators with no file name after it, the parser fails gracefully: the
\* command still runs, on the residual arguments and with no redirection,
\* and the process does not end on an exception.
C1_DanglingOperatorIsGraceful ==
    (Dispatched /\ Dangling(Tail(args))) =>
        /\ call.kind # "none"
        /\ call.args = PlainFrom(Tail(args), 1)
        /\ exit_cause \in {"", "exit", "eof"}

\* This iteration's line has an unterminated single or double quote.
Unterminated == ShlexSplit(Strip(line)).why = "No closing quotation"

\* C2: on a line with an unterminated quote the loop reports the error,
\* runs no builtin and no program, writes no file, and goes back to
\* awaiting input: the process does not end.
C2_UnterminatedQuoteIsDiscarded ==
    (Unterminated /\ pc # "Tokenizing") =>
        /\ call.kind = "none"
        /\ pc # "Exited" \/ exit_cause = "eof"

\* C3: the process ends only through the exit builtin or end of input;
\* every other failure leaves the loop running.
C3_ExitOnlyByExitOrEof ==
    pc = "Exited" => exit_cause \in {"exit", "eof"}

\* The search-path directories that hold an executable file called name.
HoldersOf(name) ==
    { k \in 1..Len(SearchPath(environ)) :
         is_executable(fs, cwd, PathJoin(SearchPath(environ)[k], name)) }

FirstOf(S) == CHOOSE i \in S : \A j \in S : i <= j

\* C4: after the scan, every name that is an executable file in more than
\* one search-path directory is cached with its path in the earliest of
\* them, and that is the path type reports.
C4_FirstDirectoryWins ==
    (pc = "AwaitingInput" /\ steps = 0 /\ removals = 0) =>
        \A name \in executable_cache :
            Cardinality(HoldersOf(name)) > 1 =>
                LET first == PathJoin(SearchPath(environ)[FirstOf(HoldersOf(name))], name)
                IN /\ full_path_executable_cache[name] = first
                   /\ name \notin Builtins =>
                        handle_type_command(<<name>>, Builtins,
                                            full_path_executable_cache).stdout
                          = name \o <<" is ">> \o first \o <<"\n">>

\* The router can open the file called name: write_output_to_file neither
\* prints a diagnostic nor raises for it.
CanOpen(fs0, name) ==
    LET w == write_output_to_file(fs0, cwd, name, <<>>, "a")
    IN w.raised = "" /\ w.printed = <<>>

\* What the file called name holds, nothing when it does not exist.
ContentOf(fs0, name) ==
    IF Abs(cwd, name) \in DOMAIN fs0 /\ fs0[Abs(cwd, name)].kind = "file"
    THEN fs0[Abs(cwd, name)].content
    ELSE <<>>

StreamFile(stream) ==
    IF stream = "stdout" THEN redirect.stdout_file ELSE redirect.stderr_file
StreamText(stream) == IF stream = "stdout" THEN stdout ELSE stderr
Other(stream) == IF stream = "stdout" THEN "stderr" ELSE "stdout"

\* The router's step leaves in the file of a redirected stream the stream's
\* text, after what the file held when the stream is appended.
WritesStream(stream) ==
    ContentOf(fs', StreamFile(stream)[1]) =
        (IF redirect.modes[stream] = "a" THEN ContentOf(fs, StreamFile(stream)[1])
         ELSE <<>>) \o StreamText(stream)

\* C8 as stated: in every routing step of a command that redirects a
\* stream to a file the router can open, an append operator leaves the
\* file's previous content followed by the stream's text and a truncate
\* operator leaves exactly the stream's text.
C8_AppendAndTruncate ==
    [][ \A stream \in {"stdout", "stderr"} :
          (/\ pc = "Routing"
           /\ Truthy(StreamFile(stream))
           /\ CanOpen(fs, StreamFile(stream)[1]))
          => WritesStream(stream) ]_vars

\* C8 amended: the same, for commands that redirect that stream only.
C8_AppendAndTruncateOneStream ==
    [][ \A stream \in {"stdout", "stderr"} :
          (/\ pc = "Routing"
           /\ Truthy(StreamFile(stream))
           /\ ~Truthy(StreamFile(Other(stream)))
           /\ CanOpen(fs, StreamFile(stream)[1]))
          => WritesStream(stream) ]_vars

\* C8 happens: a second appending echo has run, and the file holds the
\* first echo's line followed by the second's.
C8_Witness ==
    /\ pc = "AwaitingInput"
    /\ steps = 2
    /\ call.cmd = <<"echo">>
    /\ redirect.modes.stdout = "a"
    /\ Truthy(redirect.stdout_file)
    /\ ~Truthy(redirect.stderr_file)
    /\ stdout = <<"b", "\n">>
    /\ ContentOf(fs, redirect.stdout_file[1]) = <<"a", "\n", "b", "\n">>

\* C9: the router handles the two streams independently.  In its step, a
\* stream without a target goes to its own terminal stream, a stream with a
\* target the router can open goes to that file and nowhere else, and this
\* holds for each stream whatever happens to the other one's target.
C9_StreamsIndependent ==
    [][ pc = "Routing" =>
          /\ ~Truthy(redirect.stdout_file) => term_out' = term_out \o stdout
          /\ ~Truthy(redirect.stderr_file) =>
                \E diag \in {<<>>} \cup
                     (IF Truthy(redirect.stdout_file)
                      THEN { <<"Error: ">> \o redirect.stdout_file[1] \o <<m, "\n">> :
                               m \in {": No such file or directory",
                                      ": Permission denied"} }
                      ELSE {}) :
                   term_err' = term_err \o diag \o stderr
          /\ Truthy(redirect.stdout_file) => term_out' = term_out
          /\ (Truthy(redirect.stderr_file) /\ ~Truthy(redirect.stdout_file)
                /\ CanOpen(fs, redirect.stderr_file[1]))
               => WritesStream("stderr")
          /\ (Truthy(redirect.stdout_file)
                /\ (Truthy(redirect.stderr_file) =>
                       redirect.stderr_file # redirect.stdout_file)
                /\ CanOpen(fs, redirect.stdout_file[1]))
               => WritesStream("stdout")
          /\ (Truthy(redirect.stderr_file) /\ Truthy(redirect.stdout_file)
                /\ redirect.stderr_file # redirect.stdout_file
                /\ ~CanOpen(fs, redirect.stdout_file[1])
                /\ CanOpen(fs, redirect.stderr_file[1]))
               => WritesStream("stderr") ]_vars

\* C10: write_output_to_file never lets a failure to open its target out:
\* the router's step ends back at the prompt, and when a target cannot be
\* opened a diagnostic naming it is on the terminal's standard error.
C10_OpenFailureIsContained ==
    [][ pc = "Routing" =>
          /\ pc' = "AwaitingInput"
          /\ \A stream \in {"stdout", "stderr"} :
                (Truthy(StreamFile(stream)) /\ ~CanOpen(fs, StreamFile(stream)[1]))
                => \E i \in 1..Len(term_err') :
                      /\ term_err'[i] = "Error: "
                      /\ SubSeq(term_err', i + 1, i + Len(StreamFile(stream)[1]))
                           = StreamFile(stream)[1] ]_vars

(***************************************************************************)
(* handle_type_command on its own: every builtin name and some other       *)
(* names, against every cache a scan of two directories can leave for the  *)
(* names echo, cat, exit and foo.                                          *)
(***************************************************************************)

TypeNames == Builtins \cup {<<"foo">>, <<"zz">>}

TypeArgLists ==
    {<<>>} \cup { <<n>> : n \in TypeNames } \cup { <<<<"foo">>, <<"echo">>>> }

\* The caches: each of the names is absent or maps to its path in /a or /b.
TypeCaches ==
    LET names == {<<"echo">>, <<"cat">>, <<"exit">>, <<"foo">>}
        dirs == {<<"/", "a">>, <<"/", "b">>}
    IN UNION { { [n \in S |-> PathJoin(d[n], n)] : d \in [S -> dirs] } :
               S \in SUBSET names }

TypeInit ==
    /\ pc = "TypeReady"
    /\ type_args \in TypeArgLists
    /\ full_path_executable_cache \in TypeCaches
    /\ executable_cache = DOMAIN full_path_executable_cache
    /\ type_out = None
    /\ environ \in {e \in Environments : e.HOME = None}
    /\ fs = InitialFs
    /\ cwd = << <<"h">> >>
    /\ line = <<>>
    /\ args = <<>>
    /\ redirect = ParseStart
    /\ call = NoCall
    /\ stdout = <<>>
    /\ stderr = <<>>
    /\ term_out = <<>>
    /\ term_err = <<>>
    /\ exit_status = None
    /\ exit_cause = ""
    /\ steps = 0
    /\ removals = 0
    /\ cmd_args = <<>>
    /\ parse_out = None
    /\ completion = <<>>

\* The call handle_type_command(type_args, commands).
ApplyType ==
    /\ pc = "TypeReady"
    /\ type_out' = Some(handle_type_command(type_args, Builtins,
                                            full_path_executable_cache))
    /\ pc' = "TypeDone"
    /\ UNCHANGED <<environ, fs, cwd, cache_vars, iter_vars, term_out, term_err,
                   exit_status, exit_cause, steps, removals, parse_vars, type_args,
                   completion>>

TypeNext == ApplyType

TypeSpec == TypeInit /\ [][TypeNext]_vars

\* The three outcomes of type for a name, as the pair (stdout, stderr).
IsBuiltinOutcome(r, name) ==
    r.stdout = name \o <<" is a shell builtin", "\n">> /\ r.stderr = <<>>

\* The path outcome: the name, " is ", an absolute path and a newline.
IsPathOutcome(r, name) ==
    LET k == Len(name) IN
    /\ Len(r.stdout) > k + 2
    /\ SubSeq(r.stdout, 1, k + 1) = name \o <<" is ">>
    /\ r.stdout[k + 2] = "/"
    /\ r.stdout[Len(r.stdout)] = "\n"
    /\ r.stderr = <<>>

IsNotFoundOutcome(r, name) ==
    r.stdout = <<>> /\ r.stderr = name \o <<": not found", "\n">>

\* C11: type is total over single names.  Exactly one of the three
\* outcomes is produced, with the other stream empty; cat never gets the
\* builtin outcome (it gets its cached path, or not found when it is not
\* cached), and every other builtin name gets the builtin outcome even when
\* an executable of that name is cached.
C11_TypeIsTotal ==
    (pc = "TypeDone" /\ Len(type_args) = 1) =>
        LET name == type_args[1]
            r == type_out[1]
            cached == name \in DOMAIN full_path_executable_cache
            b == IsBuiltinOutcome(r, name)
            p == IsPathOutcome(r, name)
            n == IsNotFoundOutcome(r, name)
        IN /\ r.raised = ""
           /\ (b /\ ~p /\ ~n) \/ (~b /\ p /\ ~n) \/ (~b /\ ~p /\ n)
           /\ p => /\ cached
                   /\ r.stdout = name \o <<" is ">> \o full_path_executable_cache[name]
                                      \o <<"\n">>
           /\ name = <<"cat">> => (~b /\ (p <=> cached))
           /\ (name \in Builtins /\ name # <<"cat">>) => b

\* C11 happens: type was asked about echo and about cat while executables
\* of those names are cached; echo is a builtin, cat is its cached path.
C11_Witness ==
    /\ pc = "TypeDone"
    /\ type_args = << <<"cat">> >>
    /\ <<"echo">> \in DOMAIN full_path_executable_cache
    /\ <<"cat">> \in DOMAIN full_path_executable_cache
    /\ type_out[1].stdout = <<"cat", " is ", "/", "a", "/", "cat", "\n">>

(***************************************************************************)
(* Properties of cd and cat in the loop                                    *)
(***************************************************************************)

\* The lines of text t: its pieces ending in a newline.
RECURSIVE TextLines(_, _, _)
TextLines(t, cur, acc) ==
    IF t = <<>> THEN (IF cur = <<>> THEN acc ELSE Append(acc, cur))
    ELSE IF Head(t) = "\n" THEN TextLines(Tail(t), <<>>, Append(acc, Append(cur, "\n")))
    ELSE TextLines(Tail(t), Append(cur, Head(t)), acc)

\* Text t holds the characters of s next to each other.
Mentions(t, s) ==
    \E i \in 0..(Len(t) - Len(s)) : SubSeq(t, i + 1, i + Len(s)) = s

\* Text t is exactly one line, and that line names s.
OneLineNaming(t, s) ==
    /\ Len(TextLines(t, <<>>, <<>>)) = 1
    /\ t[Len(t)] = "\n"
    /\ Mentions(t, s)

\* The path named s is missing: nothing exists under that name.
Missing(fs0, s) == ~PathExists(fs0, cwd, s)

\* The directory named s exists but may not be entered.
EntryDenied(fs0, s) == IsDir(fs0, cwd, s) /\ "x" \notin fs0[Abs(cwd, s)].perm

\* The directory named s exists and may be entered.
Enterable(fs0, s) == IsDir(fs0, cwd, s) /\ "x" \in fs0[Abs(cwd, s)].perm

\* The target of cd for the residual arguments as: the home-directory
\* variable's value, '/' when it is unset, for no argument or '~'.
CdTarget(as) ==
    IF as = <<>> \/ as[1] = <<"~">>
    THEN (IF environ.HOME = None THEN <<"/">> ELSE environ.HOME[1])
    ELSE as[1]

\* The step that runs the builtin cmd: the parser returned for its line.
Runs(cmd) ==
    /\ pc = "Dispatching"
    /\ Head(args) = cmd
    /\ parse_command_redirection(Tail(args)).raised = ""

\* C12: when cd fails because its target does not exist or permission is
\* denied, the working directory is what it was, stdout is empty and stderr
\* is exactly one line naming the target; when cd succeeds both streams are
\* empty and the working directory is the target.
C12_CdFailureLeavesCwd ==
    [][ Runs(<<"cd">>) =>
          LET target == CdTarget(PlainFrom(Tail(args), 1)) IN
          /\ (Missing(fs, target) \/ EntryDenied(fs, target)) =>
                /\ pc' = "Routing"
                /\ cwd' = cwd
                /\ stdout' = <<>>
                /\ OneLineNaming(stderr', target)
          /\ Enterable(fs, target) =>
                /\ pc' = "Routing"
                /\ cwd' = Abs(cwd, target)
                /\ stdout' = <<>>
                /\ stderr' = <<>> ]_vars

\* The file named s can be read.
Readable(fs0, s) == IsFile(fs0, cwd, s) /\ "r" \in fs0[Abs(cwd, s)].perm

\* The file named s exists but may not be read.
ReadDenied(fs0, s) == IsFile(fs0, cwd, s) /\ "r" \notin fs0[Abs(cwd, s)].perm

\* The contents of the readable paths of as, in order.
RECURSIVE ReadableContents(_, _)
ReadableContents(fs0, as) ==
    IF as = <<>> THEN <<>>
    ELSE (IF Readable(fs0, as[1]) THEN fs0[Abs(cwd, as[1])].content ELSE <<>>)
         \o ReadableContents(fs0, Tail(as))

\* C13: for a list of paths each of which is readable, missing or
\* permission-denied, cat's stdout is the contents of the readable paths
\* in argument order and its stderr has one line per unreadable path, in
\* argument order and naming that path; no path stops the later ones.
C13_CatReadsEveryPath ==
    [][ (/\ Runs(<<"cat">>)
         /\ \A k \in 1..Len(PlainFrom(Tail(args), 1)) :
               LET s == PlainFrom(Tail(args), 1)[k] IN
               Readable(fs, s) \/ Missing(fs, s) \/ ReadDenied(fs, s))
        => LET paths == PlainFrom(Tail(args), 1)
               unreadable == SelectSeq(paths, LAMBDA s : ~Readable(fs, s))
               errs == TextLines(stderr', <<>>, <<>>)
           IN /\ pc' = "Routing"
              /\ stdout' = ReadableContents(fs, paths)
              /\ Len(errs) = Len(unreadable)
              /\ \A k \in 1..Len(errs) : Mentions(errs[k], unreadable[k]) ]_vars

(***************************************************************************)
(* Properties of the cache, of exit and of the prompt                      *)
(***************************************************************************)

\* C14: the two caches are what discover_system_executables found at
\* startup, and no later step of the session (a command, a builtin, a
\* completion query, an error) adds, removes or rewrites an entry.
C14_CacheIsReadOnly ==
    [][ /\ pc = "Start" =>
              /\ full_path_executable_cache'
                    = discover_system_executables(fs, cwd, environ).cache
              /\ executable_cache' = DOMAIN full_path_executable_cache'
        /\ pc # "Start" =>
              /\ executable_cache' = executable_cache
              /\ full_path_executable_cache' = full_path_executable_cache ]_vars

\* C14 happens: a command has run, a cached executable has been deleted
\* from disk and a completion query is being answered; the caches still
\* hold what the scan of the initial disk found.
C14_Witness ==
    /\ pc = "Completing"
    /\ steps = 1
    /\ removals = 1
    /\ call.kind # "none"
    /\ executable_cache # {}
    /\ full_path_executable_cache
          = discover_system_executables(InitialFs, << <<"h">> >>, environ).cache
    /\ executable_cache = DOMAIN full_path_executable_cache

\* C15: a line whose command name is exit ends the process with status 0
\* whatever its arguments, in the step that dispatches it: the router never
\* runs for it, and no file is created, truncated or appended to.
C15_ExitBeforeRouting ==
    [][ (pc = "Dispatching" /\ Head(args) = <<"exit">>) =>
          /\ pc' = "Exited"
          /\ exit_status' = Some(0)
          /\ fs' = fs ]_vars

\* C16: an interrupt while the loop awaits input prints a fresh line and
\* leaves the loop awaiting input: the process does not end and no command
\* is dispatched.  End of input while it awaits input ends the process
\* with status 0.
C16_InterruptAndEndOfInput ==
    [][ pc = "AwaitingInput" =>
          /\ pc' \in {"AwaitingInput", "Completing"} =>
                /\ exit_status' = None
                /\ UNCHANGED <<line, args, redirect, call, stdout, stderr, cwd, steps>>
                /\ term_out' \in {term_out, <<"\n">>}
          /\ (pc' = "AwaitingInput" /\ term_err' # term_err) =>
                (term_out' = <<"\n">> /\ term_err' = <<>>)
          /\ pc' = "Exited" =>
                /\ exit_status' = Some(0)
                /\ exit_cause' = "eof"
                /\ term_out' = <<"\n">>
          /\ pc' \in {"AwaitingInput", "Completing", "Exited", "Tokenizing"} ]_vars

\* C16 happens: a command ran, then the prompt was interrupted; the fresh
\* line is on the terminal, the loop awaits input and the process runs.
C16_Witness ==
    /\ pc = "AwaitingInput"
    /\ steps = 1
    /\ call.kind = "builtin"
    /\ term_out = <<"\n">>
    /\ stdout = <<"a", "\n">>
    /\ exit_status = None

\* C17: for a cached name that is not a builtin, the path type reports is
\* the path of the program that runs when the name is entered as a
\* command (no executable having been deleted since the scan).
C17_TypeReportsWhatRuns ==
    (call.kind = "external" /\ removals = 0) =>
        /\ call.path = CacheGet(full_path_executable_cache, call.cmd)
        /\ Truthy(call.path) =>
              handle_type_command(<<call.cmd>>, Builtins,
                                  full_path_executable_cache).stdout
                = call.cmd \o <<" is ">> \o call.path[1] \o <<"\n">>

(***************************************************************************)
(* Properties of the order of handler and router                           *)
(***************************************************************************)

\* The line being routed is cat of the one file it redirects stdout to, a
\* file that can be read and that the router can open.
CatOntoItself(name) ==
    /\ pc = "Routing"
    /\ call.cmd = <<"cat">>
    /\ call.args = <<name>>
    /\ redirect.stdout_file = Some(name)
    /\ ~Truthy(redirect.stderr_file)
    /\ Readable(fs, name)
    /\ CanOpen(fs, name)

\* C18: the handler runs to completion before any redirection target is
\* opened: the dispatching step leaves the disk as it is, and the handler's
\* text is what it read from the old disk.  So cat f > f leaves f with its
\* previous content and cat f >> f leaves f with its previous content
\* twice.
C18_HandlerBeforeRouter ==
    [][ /\ pc = "Dispatching" => fs' = fs
        /\ \A name \in {<<"f">>, <<"r">>} :
              CatOntoItself(name) =>
                 /\ stdout = ContentOf(fs, name)
                 /\ redirect.modes.stdout = "w" =>
                       ContentOf(fs', name) = ContentOf(fs, name)
                 /\ redirect.modes.stdout = "a" =>
                       ContentOf(fs', name) = ContentOf(fs, name) \o ContentOf(fs, name)
      ]_vars

\* C18 happens: echo a > f and then cat f > f; f still holds the echoed
\* line.
C18_Witness ==
    /\ pc = "AwaitingInput"
    /\ steps = 2
    /\ call.cmd = <<"cat">>
    /\ call.args = << <<"f">> >>
    /\ redirect.stdout_file = Some(<<"f">>)
    /\ redirect.modes.stdout = "w"
    /\ stdout = <<"a", "\n">>
    /\ ContentOf(fs, <<"f">>) = <<"a", "\n">>

\* The file called name exists as a regular file.
FileExists(fs0, name) ==
    Abs(cwd, name) \in DOMAIN fs0 /\ fs0[Abs(cwd, name)].kind = "file"

\* C19: when a stream has a target file the router can open, the file is
\* opened and written even if the stream's text is empty: it exists
\* afterwards, empty after a truncating operator and with what it held
\* after an appending one.  With no target, an empty stream writes nothing
\* to the terminal.
C19_EmptyTextIsWritten ==
    [][ pc = "Routing" =>
          /\ \A stream \in {"stdout", "stderr"} :
                (/\ Truthy(StreamFile(stream))
                 /\ StreamText(stream) = <<>>
                 /\ StreamFile(Other(stream)) # StreamFile(stream)
                 /\ CanOpen(fs, StreamFile(stream)[1]))
                => /\ FileExists(fs', StreamFile(stream)[1])
                   /\ ContentOf(fs', StreamFile(stream)[1])
                        = (IF redirect.modes[stream] = "a"
                           THEN ContentOf(fs, StreamFile(stream)[1]) ELSE <<>>)
          /\ (~Truthy(redirect.stdout_file) /\ stdout = <<>>) => term_out' = term_out
          /\ (~Truthy(redirect.stderr_file) /\ stderr = <<>>
                /\ ~Truthy(redirect.stdout_file)) => term_err' = term_err ]_vars

\* C20: the router writes the stdout target before the stderr target.
\* When both streams of a command go to the same file, one the router can
\* open, a truncating stderr operator leaves only the stderr text in it
\* and an appending stderr operator leaves the stdout text followed by the
\* stderr text, after what the file held if stdout was appended too.
C20_StdoutBeforeStderr ==
    [][ (/\ pc = "Routing"
         /\ Truthy(redirect.stdout_file)
         /\ redirect.stderr_file = redirect.stdout_file
         /\ CanOpen(fs, redirect.stdout_file[1]))
        => ContentOf(fs', redirect.stdout_file[1]) =
              IF redirect.modes.stderr = "w" THEN stderr
              ELSE (IF redirect.modes.stdout = "a"
                    THEN ContentOf(fs, redirect.stdout_file[1]) ELSE <<>>)
                   \o stdout \o stderr ]_vars

\* C20 happens: cat of a readable and a missing path with > f 2>> f has
\* been routed, and f holds the content followed by the error line.
C20_Witness ==
    /\ pc = "AwaitingInput"
    /\ call.cmd = <<"cat">>
    /\ redirect.stdout_file = Some(<<"f">>)
    /\ redirect.stderr_file = Some(<<"f">>)
    /\ redirect.modes.stdout = "w"
    /\ redirect.modes.stderr = "a"
    /\ stdout = <<"data", "\n">>
    /\ stderr # <<>>
    /\ ContentOf(fs, <<"f">>) = stdout \o stderr

====
